---- MODULE Spec2Model ----
(***************************************************************************)
(* Model of the gadgetbridge-influxdb-exporter: the record schemas and     *)
(* their point synthesis (models.py, main.py), the relational readers and  *)
(* the export run of gadgetbridge.py, and the CSV-archive reader and       *)
(* export run of zepp.py.                                                  *)
(*                                                                         *)
(* Conventions.  An Optional[int] / Optional[str] value is a sequence of   *)
(* length 0 (None) or 1 (the value).  A point-in-time is a record          *)
(* [sec, ms]: whole epoch seconds and the millisecond remainder (the       *)
(* process is taken to run in UTC, so datetime.fromtimestamp is the epoch  *)
(* offset itself).                                                         *)
(***************************************************************************)
EXTENDS Integers, Sequences, FiniteSets, TLC

VARIABLES
    pc,            \* position of the modelled call / run
    schema,        \* record class of the sample being synthesized
    source,        \* where the sample was read from (table or CSV archive)
    sample,        \* the Schema Record handed to point synthesis
    tags,          \* the tag set handed to point synthesis
    result,        \* the list of points returned by synthesis
    all_revisions, \* settings.google_drive_file_all_revisions
    db_paths,      \* the downloaded temporary files, one per unit
    files,         \* the temporary files that exist on disk
    unit,          \* index in db_paths of the unit being processed
    db,            \* content of the file of the current unit
    samples,       \* the records read from the current unit
    taken,         \* how many of samples the export loop has taken
    device_cache,  \* device id -> DeviceInfo, local to the unit
    points,        \* the batch of points of the unit
    written,       \* the batch handed to write_api.write in this unit
    log,           \* the lines logged while processing the unit
    lookups,       \* device id -> get_device_info calls of the run
    unit_lookups,  \* device id -> get_device_info calls of the unit
    api_open,      \* the write API and the client have not been closed
    error          \* the exception propagating out of the unit

synthVars == <<schema, source, sample, tags, result>>

runVars ==
    <<all_revisions, db_paths, files, unit, db, samples, taken, device_cache,
      points, written, log, lookups, unit_lookups, api_open, error>>

vars == <<pc, synthVars, runVars>>

----------------------------------------------------------------------------
(* Bounds of the model *)

\* at most this many measurements of a drawn record differ from the blank record
MaxPresent == 2

\* at most this many rows in the sample tables of one database
MaxRows == 2

\* at most this many revisions (units) downloaded for one run
MaxUnits == 2

\* at most this many member files in one CSV archive
MaxMembers == 2

----------------------------------------------------------------------------
(* Optional values *)

None == <<>>

Some(v) == <<v>>

Val(x) == x[1]

\* the test "x is not None" in place of truthiness: 0 counts as a value
Truthy_ZeroCounts(x) == x # None

\* Python truthiness of an Optional[int]: None and 0 are falsy
Truthy(x) == x # None /\ Val(x) # 0

----------------------------------------------------------------------------
(* Schema record types: models.py, main.py *)

ActivityMeasurements ==
    {"raw_intensity", "steps", "raw_kind", "heart_rate", "unknown1", "sleep",
     "deep_sleep", "rem_sleep", "stress", "spo2", "calories"}

\* main.py's ActivitySample has no calories column
WristbandMeasurements == ActivityMeasurements \ {"calories"}

\* main.py declares these as plain int: they are never None after validation
WristbandRequired == {"raw_intensity", "steps", "raw_kind", "heart_rate"}

DailySummaryMeasurements ==
    {"steps", "heart_rate_resting", "heart_rate_max", "heart_rate_max_timestamp",
     "heart_rate_min", "heart_rate_min_timestamp", "heart_rate_average",
     "stress_max", "stress_min", "stress_average", "calories", "spo2_max",
     "spo2_max_timestamp", "spo2_min", "spo2_min_timestamp", "spo2_average",
     "training_load_day", "training_load_week", "vitality_increase_light",
     "vitality_increase_moderate", "vitality_increase_high", "vitality_current"}

SleepStageMeasurements == {"stage"}

SleepTimeMeasurements ==
    {"wakeup_time", "is_awake", "total_duration", "deep_sleep_duration",
     "light_sleep_duration", "rem_sleep_duration", "awake_duration"}

Schemas ==
    {"ActivitySample", "XiaomiDailySummarySample", "XiaomiSleepStageSample",
     "XiaomiSleepTimeSample", "WristbandActivitySample"}

XiaomiSchemas ==
    {"XiaomiDailySummarySample", "XiaomiSleepStageSample", "XiaomiSleepTimeSample"}

Measurements(sc) ==
    CASE sc = "ActivitySample" -> ActivityMeasurements
      [] sc = "WristbandActivitySample" -> WristbandMeasurements
      [] sc = "XiaomiDailySummarySample" -> DailySummaryMeasurements
      [] sc = "XiaomiSleepStageSample" -> SleepStageMeasurements
      [] sc = "XiaomiSleepTimeSample" -> SleepTimeMeasurements

\* the identity columns every schema has besides its measurements
IdentityFields == {"device_id", "user_id"}

----------------------------------------------------------------------------
(* The records the synthesis is applied to *)

\* integer values a measurement is drawn from: for the heart rate the two
\* sentinels and a valid reading, for the others zero and positive values
MeasurementValues(f) ==
    CASE f = "heart_rate" -> {0, 72, 255}
      [] f \in {"sleep", "deep_sleep", "rem_sleep"} -> {0, 20, 30}
      [] OTHER -> {0, 30}

\* timestamps: whole seconds and values with a millisecond remainder
Timestamps == {1500, 2000, 61999}

RECURSIVE SubsetsUpTo(_, _)
SubsetsUpTo(S, k) ==
    IF k = 0 THEN {{}}
    ELSE LET smaller == SubsetsUpTo(S, k - 1)
         IN smaller \cup {P \cup {x} : P \in smaller, x \in S}

\* the value of a measurement nothing was stored for
Blank(sc, f) ==
    IF sc = "WristbandActivitySample" /\ f \in WristbandRequired
    THEN Some(0) ELSE None

\* the values a stored measurement can have after validation
Choices(sc, f) ==
    LET some == {Some(v) : v \in MeasurementValues(f)}
    IN IF sc = "WristbandActivitySample" /\ f \in WristbandRequired
       THEN some ELSE some \cup {None}

\* the ways of storing a value in each measurement of P
Stored(sc, P) ==
    { g \in [P -> UNION {Choices(sc, f) : f \in P}] :
        \A f \in P : g[f] \in Choices(sc, f) /\ g[f] # Blank(sc, f) }

\* the record of schema sc with timestamp ts whose measurements in P are g's
Record(sc, P, g, ts) ==
    [f \in Measurements(sc) |-> IF f \in P THEN g[f] ELSE Blank(sc, f)]
    @@ [f \in IdentityFields |->
           IF sc = "WristbandActivitySample" THEN Some(1) ELSE None]
    @@ ("timestamp" :> ts)

----------------------------------------------------------------------------
(* Points: influxdb_client.Point as built by the synthesis code *)

\* a point built without the loop over tags.items()
MkPoint_Untagged(name, t, tg, fl) ==
    [measurement |-> name, time |-> t, tags |-> [k \in {} |-> ""], fields |-> fl]

\* Point(name).time(t), then .tag for every tag, then .field for every field
MkPoint(name, t, tg, fl) ==
    [measurement |-> name, time |-> t, tags |-> tg, fields |-> fl]

NoTags == [k \in {} |-> ""]

\* the tag sets synthesis is called with in the synthesis specification
TagSets ==
    { [k \in {"source"} |-> "zepp"],
      [k \in {"user_id", "source"} |-> IF k = "source" THEN "gadgetbridge" ELSE "1"] }

----------------------------------------------------------------------------
(* models.py: ActivitySample *)

\* ActivitySample.datetime: the stored integer is taken as epoch seconds
ActivityDatetime(s) == [sec |-> s.timestamp, ms |-> 0]

\* has_valid_heart_rate with the comparison against 0 left out
HasValidHeartRate_Only255(s) == s.heart_rate # Some(255)

\* ActivitySample.has_valid_heart_rate (models.py and main.py alike)
HasValidHeartRate(s) == s.heart_rate # Some(255) /\ s.heart_rate # Some(0)

\* the steps test reading the neighbouring column
HasSteps_WrongColumn(s) == Truthy(s.raw_intensity) /\ Val(s.raw_intensity) > 0

\* the steps test as "steps is not None and steps >= 0"
HasSteps_ZeroCounts(s) == s.steps # None /\ Val(s.steps) >= 0

\* "if steps and steps > 0"
HasSteps(s) == Truthy(s.steps) /\ Val(s.steps) > 0

\* the measurements the combined activity_sample point gets a field for
ActivityWideFields(s) ==
    {f \in {"heart_rate"} : HasValidHeartRate(s)}
    \cup {f \in {"steps"} : HasSteps(s)}
    \cup {f \in {"stress", "spo2", "raw_intensity", "sleep", "deep_sleep",
                 "rem_sleep", "raw_kind"} : Truthy(s[f])}

\* ActivitySample.to_influxdb_points
ActivityPoints(s, tg) ==
    LET t == ActivityDatetime(s)
        heart == IF HasValidHeartRate(s)
                 THEN <<MkPoint("heart_rate", t, tg,
                                [f \in {"heart_rate"} |-> s.heart_rate])>>
                 ELSE <<>>
        steps == IF HasSteps(s)
                 THEN <<MkPoint("steps", t, tg, [f \in {"steps"} |-> s.steps])>>
                 ELSE <<>>
        wide == MkPoint("activity_sample", t, tg,
                        [f \in ActivityWideFields(s) |-> s[f]])
    IN heart \o steps \o <<wide>>

----------------------------------------------------------------------------
(* models.py: the Xiaomi sample classes *)

\* datetime.fromtimestamp(sample.timestamp / 1000): true division, so the
\* millisecond remainder stays in the datetime
XiaomiDatetime(s) == [sec |-> s.timestamp \div 1000, ms |-> s.timestamp % 1000]

XiaomiMeasurementName(sc) ==
    CASE sc = "XiaomiDailySummarySample" -> "xiaomi_daily_summary_sample"
      [] sc = "XiaomiSleepStageSample" -> "xiaomi_sleep_stage_sample"
      [] sc = "XiaomiSleepTimeSample" -> "xiaomi_sleep_time_sample"

\* "if sample.x: point = point.field(x, value=sample.x)" for every measurement
XiaomiFields(sc, s) == {f \in Measurements(sc) : Truthy(s[f])}

\* to_influxdb_points of XiaomiDailySummarySample, XiaomiSleepStageSample and
\* XiaomiSleepTimeSample
XiaomiPoints(sc, s, tg) ==
    <<MkPoint(XiaomiMeasurementName(sc), XiaomiDatetime(s), tg,
              [f \in XiaomiFields(sc, s) |-> s[f]])>>

----------------------------------------------------------------------------
(* main.py: the per-sample body of WristbandMetricsExporter.export_metrics *)

\* the three entries of sleep_states, in dict order
SleepStates(s) ==
    << <<"light", s.sleep>>, <<"deep", s.deep_sleep>>, <<"rem", s.rem_sleep>> >>

\* the stage point built without the "is not None" test
SleepStatePoint_Unconditional(s, tg, st) ==
    <<MkPoint("wristband_sleep_state", ActivityDatetime(s),
              [k \in DOMAIN tg \cup {"sleep_type"} |->
                  IF k \in DOMAIN tg THEN tg[k] ELSE st[1]],
              [f \in {"duration"} |-> st[2]])>>

\* "if value is not None": one wristband_sleep_state point per present stage
SleepStatePoint(s, tg, st) ==
    IF st[2] # None
    THEN <<MkPoint("wristband_sleep_state", ActivityDatetime(s),
                   [k \in DOMAIN tg \cup {"sleep_type"} |->
                       IF k \in DOMAIN tg THEN tg[k] ELSE st[1]],
                   [f \in {"duration"} |-> st[2]])>>
    ELSE <<>>

WristbandSleepPoints(s, tg) ==
    IF s.sleep # None
    THEN SleepStatePoint(s, tg, SleepStates(s)[1])
         \o SleepStatePoint(s, tg, SleepStates(s)[2])
         \o SleepStatePoint(s, tg, SleepStates(s)[3])
    ELSE <<>>

WristbandPoints(s, tg) ==
    LET t == ActivityDatetime(s)
        heart == IF HasValidHeartRate(s)
                 THEN <<MkPoint("wristband_heart_rate", t, tg,
                                [f \in {"heart_rate"} |-> s.heart_rate])>>
                 ELSE <<>>
        steps == IF Val(s.steps) > 0
                 THEN <<MkPoint("wristband_steps", t, tg,
                                [f \in {"steps"} |-> s.steps])>>
                 ELSE <<>>
        stress == IF Truthy(s.stress)
                  THEN <<MkPoint("wristband_stress", t, tg,
                                 [f \in {"steps"} |-> s.stress])>>
                  ELSE <<>>
        spo2 == IF Truthy(s.spo2)
                THEN <<MkPoint("wristband_spo2", t, tg,
                               [f \in {"steps"} |-> s.spo2])>>
                ELSE <<>>
        intensity == <<MkPoint("wristband_raw_intensity", t, tg,
                               [f \in {"raw_intensity"} |-> s.raw_intensity])>>
    IN heart \o steps \o stress \o spo2 \o intensity \o WristbandSleepPoints(s, tg)

----------------------------------------------------------------------------
(* gadgetbridge.py: raw rows of the sample tables and their validation *)

\* a stored SQLite value: NULL, an integer, text holding a decimal integer,
\* or text that is no number
NullCell == [type |-> "null", v |-> 0]

IntCell(n) == [type |-> "int", v |-> n]

NumTextCell(n) == [type |-> "numtext", v |-> n]

TextCell == [type |-> "text", v |-> 0]

\* Field(alias=...): the column each attribute of ActivitySample is read from
Alias ==
    [timestamp |-> "TIMESTAMP", device_id |-> "DEVICE_ID", user_id |-> "USER_ID",
     raw_intensity |-> "RAW_INTENSITY", steps |-> "STEPS", raw_kind |-> "RAW_KIND",
     heart_rate |-> "HEART_RATE", unknown1 |-> "UNKNOWN1", sleep |-> "SLEEP",
     deep_sleep |-> "DEEP_SLEEP", rem_sleep |-> "REM_SLEEP", stress |-> "STRESS",
     spo2 |-> "SPO2", calories |-> "CALORIES"]

ActivityColumns == {Alias[f] : f \in DOMAIN Alias}

\* pydantic validation of one value as int (lax mode: numeric text is
\* converted, other text and NULL are rejected)
IsInt(c) == c.type \in {"int", "numtext"}

\* pydantic validation of one value as int | None
IsOptionalInt(c) == c.type = "null" \/ IsInt(c)

AsOptionalInt(c) == IF c.type = "null" THEN None ELSE Some(c.v)

\* ActivitySample.model_validate(dict(row)) raises ValidationError
ValidationFails(row) ==
    \/ ~IsInt(row[Alias.timestamp])
    \/ \E f \in DOMAIN Alias \ {"timestamp"} : ~IsOptionalInt(row[Alias[f]])

\* ActivitySample.model_validate(dict(row)) for a row that validates
ModelValidate(row) ==
    [f \in DOMAIN Alias |->
        IF f = "timestamp" THEN row[Alias[f]].v ELSE AsOptionalInt(row[Alias[f]])]

\* the reader loop leaving at the first row that fails to validate
RECURSIVE ReadRows_StopAtBadRow(_, _)
ReadRows_StopAtBadRow(rows, acc) ==
    IF rows = <<>> THEN acc
    ELSE IF ValidationFails(Head(rows))
         THEN [acc EXCEPT !.log = Append(@, "Failed to parse activity sample")]
         ELSE ReadRows_StopAtBadRow(Tail(rows),
                  [acc EXCEPT !.samples = Append(@, ModelValidate(Head(rows)))])

\* "for row in cursor: try: yield model_validate(dict(row)) except: log;
\* continue", from the accumulated state acc = [samples, log]
RECURSIVE ReadRows(_, _)
ReadRows(rows, acc) ==
    IF rows = <<>> THEN acc
    ELSE IF ValidationFails(Head(rows))
         THEN ReadRows(Tail(rows),
                  [acc EXCEPT !.log = Append(@, "Failed to parse activity sample")])
         ELSE ReadRows(Tail(rows),
                  [acc EXCEPT !.samples = Append(@, ModelValidate(Head(rows)))])

\* a reader whose missing table empties the list of the records read so far
ReadTable_MissingDiscards(table, name, acc) ==
    IF table = None
    THEN [samples |-> <<>>, log |-> Append(acc.log, name \o " table not found")]
    ELSE ReadRows(Val(table), [acc EXCEPT !.log = Append(@, name \o " table found")])

\* get_huami_activity_samples / get_xiaomi_activity_samples on a table that is
\* None when sqlite_master has no such table, else its rows in cursor order
ReadTable(table, name, acc) ==
    IF table = None
    THEN [acc EXCEPT !.log = Append(@, name \o " table not found")]
    ELSE ReadRows(Val(table), [acc EXCEPT !.log = Append(@, name \o " table found")])

----------------------------------------------------------------------------
(* gadgetbridge.py: device resolver *)

UnknownDeviceInfo ==
    [name |-> "unknown", manufacturer |-> "unknown", model |-> None, firmware |-> None]

\* the fallback built with empty strings instead of the "unknown" marker
GetDeviceInfo_EmptyFallback(devices, id) ==
    IF id \in DOMAIN devices
    THEN IF devices[id].name = None \/ devices[id].manufacturer = None
         THEN [raised |-> TRUE, info |-> UnknownDeviceInfo]
         ELSE [raised |-> FALSE,
               info |-> [name |-> Val(devices[id].name),
                         manufacturer |-> Val(devices[id].manufacturer),
                         model |-> devices[id].model,
                         firmware |-> devices[id].firmware]]
    ELSE [raised |-> FALSE,
          info |-> [name |-> "", manufacturer |-> "", model |-> None,
                    firmware |-> None]]

\* get_device_info: devices maps each id of the DEVICE table to the first row
\* of its join with DEVICE_ATTRIBUTES.  DeviceInfo declares name and
\* manufacturer as str, so a NULL there makes the constructor raise.
GetDeviceInfo(devices, id) ==
    IF id \in DOMAIN devices
    THEN IF devices[id].name = None \/ devices[id].manufacturer = None
         THEN [raised |-> TRUE, info |-> UnknownDeviceInfo]
         ELSE [raised |-> FALSE,
               info |-> [name |-> Val(devices[id].name),
                         manufacturer |-> Val(devices[id].manufacturer),
                         model |-> devices[id].model,
                         firmware |-> devices[id].firmware]]
    ELSE [raised |-> FALSE, info |-> UnknownDeviceInfo]

\* Python's  x or "unknown"  for an Optional[str]
OrUnknown(x) == IF x # None /\ Val(x) # "" THEN Val(x) ELSE "unknown"

\* DeviceInfo.to_tags
ToTags(info) ==
    [device_name |-> info.name,
     device_manufacturer |-> info.manufacturer,
     device_model |-> OrUnknown(info.model),
     device_firmware |-> OrUnknown(info.firmware)]

\* str(sample.user_id)
StrOfOptional(x) == IF x = None THEN "None" ELSE ToString(Val(x))

\* common_tags of the export loop: user_id, source, then the device tags
CommonTags(s, info) ==
    LET dev == ToTags(info)
    IN [k \in {"user_id", "source"} \cup DOMAIN dev |->
           IF k \in DOMAIN dev THEN dev[k]
           ELSE IF k = "source" THEN "gadgetbridge"
           ELSE StrOfOptional(s.user_id)]

\* the new points put in front of the batch
Extend_InFront(batch, new) == new \o batch

\* points.extend(sample.to_influxdb_points(...))
Extend(batch, new) == batch \o new

\* the device id test as "device_id is not None"
HasDeviceId_NotNone(s) == s.device_id # None

\* "if not device_id: continue" is not taken: the id is neither None nor 0
HasDeviceId(s) == Truthy(s.device_id)

\* the cache of the unit before, kept for the next unit
NewDeviceCache_Kept(previous) == previous

\* "device_cache: dict[int, DeviceInfo] = {}" inside the loop over db_paths:
\* every unit starts with an empty cache, whatever the unit before resolved
NewDeviceCache(previous) == [i \in {} |-> UnknownDeviceInfo]

\* the cache test that always misses
NeedsLookup_Always(cache, id) == TRUE

\* "if device_id not in device_cache"
NeedsLookup(cache, id) == id \notin DOMAIN cache

----------------------------------------------------------------------------
(* The databases a unit can hold *)

ActivityRow(ts, dev, hr, steps) ==
    [c \in ActivityColumns |->
        CASE c = "TIMESTAMP" -> ts
          [] c = "DEVICE_ID" -> dev
          [] c = "USER_ID" -> IntCell(1)
          [] c = "HEART_RATE" -> hr
          [] c = "STEPS" -> steps
          [] OTHER -> NullCell]

\* rows that validate (of device 1, of device 2 with numeric text in STEPS,
\* without device, with device id 0) and rows that do not (NULL timestamp,
\* text in STEPS, text timestamp)
SampleRows ==
    { ActivityRow(IntCell(1000), IntCell(1), IntCell(72), IntCell(30)),
      ActivityRow(IntCell(2000), IntCell(2), IntCell(255), NumTextCell(30)),
      ActivityRow(IntCell(3000), NullCell, IntCell(72), IntCell(30)),
      ActivityRow(IntCell(500), IntCell(0), IntCell(72), IntCell(30)),
      ActivityRow(NullCell, IntCell(1), IntCell(72), IntCell(30)),
      ActivityRow(IntCell(2500), IntCell(1), IntCell(72), TextCell),
      ActivityRow(TextCell, IntCell(2), IntCell(0), IntCell(0)) }

\* SQLite's ORDER BY TIMESTAMP ASC: NULL first, then numbers, then text
StorageClass(c) ==
    CASE c.type = "null" -> 0
      [] c.type = "int" -> 1
      [] OTHER -> 2

Precedes(a, b) ==
    \/ StorageClass(a) < StorageClass(b)
    \/ StorageClass(a) = StorageClass(b) /\ (a.type # "int" \/ a.v <= b.v)

InCursorOrder(rows) ==
    \A i, j \in 1..Len(rows) : i < j => Precedes(rows[i].TIMESTAMP, rows[j].TIMESTAMP)

\* the result sets of "SELECT * ... ORDER BY TIMESTAMP ASC" with up to n rows
Tables(n) ==
    { r \in UNION {[1..k -> SampleRows] : k \in 0..n} : InCursorOrder(r) }

DeviceIds == {1, 2}

\* DEVICE joined with DEVICE_ATTRIBUTES: a table without device 2, and one
\* whose device 2 has a NULL name
DeviceTables ==
    { [i \in {1} |-> [name |-> Some("Mi Band"), manufacturer |-> Some("Huami"),
                      model |-> None, firmware |-> Some("1.0")]],
      [i \in {1, 2} |->
          IF i = 1
          THEN [name |-> Some("Mi Band"), manufacturer |-> Some("Huami"),
                model |-> Some(""), firmware |-> None]
          ELSE [name |-> None, manufacturer |-> Some("Xiaomi"),
                model |-> Some("M2"), firmware |-> Some("2.0")]] }

TableLen(t) == IF t = None THEN 0 ELSE Len(Val(t))

\* a file sqlite3 cannot read
UnreadableDb == [readable |-> FALSE, opened |-> TRUE]

\* a sample table of a database: None when the table does not exist, else
\* its rows in cursor order
OptionalTables(n) == {None} \cup {Some(t) : t \in Tables(n)}

\* no file has been opened yet
NoDb == [readable |-> FALSE, opened |-> FALSE]

NoLookups == [i \in DeviceIds |-> 0]

\* the state of a process that has not started an export run
RunIdle ==
    /\ all_revisions = FALSE
    /\ db_paths = <<>>
    /\ files = {}
    /\ unit = 0
    /\ db = NoDb
    /\ samples = <<>>
    /\ taken = 0
    /\ device_cache = [i \in {} |-> UnknownDeviceInfo]
    /\ points = <<>>
    /\ written = None
    /\ log = <<>>
    /\ lookups = NoLookups
    /\ unit_lookups = NoLookups
    /\ api_open = TRUE
    /\ error = "none"

----------------------------------------------------------------------------
(* Specification SpecSynth: point synthesis applied to one drawn record *)

\* where a record of a schema comes from: ActivitySample rows are built by the
\* two relational readers of gadgetbridge.py and by the CSV reader of zepp.py
Sources(sc) ==
    IF sc = "ActivitySample"
    THEN {"HUAMI_EXTENDED_ACTIVITY_SAMPLE", "XIAOMI_ACTIVITY_SAMPLE", "zepp_csv"}
    ELSE IF sc = "WristbandActivitySample"
    THEN {"HUAMI_EXTENDED_ACTIVITY_SAMPLE", "XIAOMI_ACTIVITY_SAMPLE"}
    ELSE {"caller"}

SynthInit ==
    /\ pc = "input"
    /\ schema \in Schemas
    /\ source \in Sources(schema)
    /\ \E P \in SubsetsUpTo(Measurements(schema), MaxPresent), ts \in Timestamps :
          \E g \in Stored(schema, P) : sample = Record(schema, P, g, ts)
    /\ tags \in TagSets
    /\ result = <<>>
    /\ RunIdle

SynthActivity ==
    /\ pc = "input"
    /\ schema = "ActivitySample"
    /\ result' = ActivityPoints(sample, tags)
    /\ pc' = "returned"
    /\ UNCHANGED <<schema, source, sample, tags, runVars>>

SynthXiaomi ==
    /\ pc = "input"
    /\ schema \in XiaomiSchemas
    /\ result' = XiaomiPoints(schema, sample, tags)
    /\ pc' = "returned"
    /\ UNCHANGED <<schema, source, sample, tags, runVars>>

SynthWristband ==
    /\ pc = "input"
    /\ schema = "WristbandActivitySample"
    /\ result' = WristbandPoints(sample, tags)
    /\ pc' = "returned"
    /\ UNCHANGED <<schema, source, sample, tags, runVars>>

\* to_influxdb_points of the record's class (for main.py, the loop body)
Synthesize(sc, s, tg) ==
    CASE sc = "ActivitySample" -> ActivityPoints(s, tg)
      [] sc \in XiaomiSchemas -> XiaomiPoints(sc, s, tg)
      [] sc = "WristbandActivitySample" -> WristbandPoints(s, tg)

\* the list filled by a call, handed the list an earlier call returned, if it
\* were one list kept between the calls
NewPointList_Shared(earlier) == earlier

\* "points: list[Point] = []" / "return [point]": every call builds a new list,
\* whatever list an earlier call returned
NewPointList(earlier) == <<>>

\* the same method called once more on the same record with the same tags
SynthAgain ==
    /\ pc = "returned"
    /\ result' = NewPointList(result) \o Synthesize(schema, sample, tags)
    /\ pc' = "again"
    /\ UNCHANGED <<schema, source, sample, tags, runVars>>

SynthNext == SynthActivity \/ SynthXiaomi \/ SynthWristband \/ SynthAgain

SpecSynth == SynthInit /\ [][SynthNext]_vars

----------------------------------------------------------------------------
(* Specification Spec: one run of gadgetbridge.MetricsExporter.export_metrics *)

Init ==
    /\ pc = "start"
    /\ schema = "ActivitySample"
    /\ source = "none"
    /\ sample = None
    /\ tags = NoTags
    /\ result = <<>>
    /\ all_revisions \in BOOLEAN
    /\ db_paths = <<>>
    /\ files = {}
    /\ unit = 0
    /\ db = NoDb
    /\ samples = <<>>
    /\ taken = 0
    /\ device_cache = [i \in {} |-> UnknownDeviceInfo]
    /\ points = <<>>
    /\ written = None
    /\ log = <<>>
    /\ lookups = NoLookups
    /\ unit_lookups = NoLookups
    /\ api_open = TRUE
    /\ error = "none"

\* download_db_versions() returns the revisions' temporary files (none when
\* the file has no revisions); download_db() returns one
Download ==
    /\ pc = "start"
    /\ \E n \in (IF all_revisions THEN 0..MaxUnits ELSE {1}) :
          /\ db_paths' = [i \in 1..n |-> i]
          /\ files' = 1..n
    /\ pc' = "loop"
    /\ UNCHANGED <<synthVars, all_revisions, unit, db, samples, taken,
                   device_cache, points, written, log, lookups, unit_lookups,
                   api_open, error>>

\* the download raises: before any temporary file exists (n = 0: listing or
\* marking the revisions), or while fetching the n-th one, whose temporary file
\* (delete=False) is already created; the files made so far stay on disk
DownloadFails ==
    /\ pc = "start"
    /\ \E n \in (IF all_revisions THEN 0..MaxUnits ELSE 0..1) :
          files' = 1..n
    /\ pc' = "raised"
    /\ error' = "download"
    /\ UNCHANGED <<synthVars, all_revisions, db_paths, unit, db, samples, taken,
                   device_cache, points, written, log, lookups, unit_lookups,
                   api_open>>

\* "for db_path in db_paths": sqlite3.connect on the next file, with a fresh
\* device_cache and a fresh points list.  The content of the file is drawn
\* where it is first read: the device table here, each sample table by its
\* reader.
StartUnit ==
    /\ pc = "loop"
    /\ unit < Len(db_paths)
    /\ unit' = unit + 1
    /\ \E d \in DeviceTables : db' = [readable |-> TRUE, devices |-> d]
    /\ device_cache' = NewDeviceCache(device_cache)
    /\ points' = <<>>
    /\ samples' = <<>>
    /\ taken' = 0
    /\ written' = None
    /\ log' = <<>>
    /\ unit_lookups' = NoLookups
    /\ sample' = None
    /\ tags' = NoTags
    /\ result' = <<>>
    /\ pc' = "read_huami"
    /\ UNCHANGED <<schema, source, all_revisions, db_paths, files, lookups,
                   api_open, error>>

\* the file is no SQLite database: the first query raises
StartUnitUnreadable ==
    /\ pc = "loop"
    /\ unit < Len(db_paths)
    /\ unit' = unit + 1
    /\ db' = UnreadableDb
    /\ device_cache' = NewDeviceCache(device_cache)
    /\ points' = <<>>
    /\ samples' = <<>>
    /\ taken' = 0
    /\ written' = None
    /\ log' = <<>>
    /\ unit_lookups' = NoLookups
    /\ sample' = None
    /\ tags' = NoTags
    /\ result' = <<>>
    /\ error' = "unreadable"
    /\ pc' = "cleanup"
    /\ UNCHANGED <<schema, source, all_revisions, db_paths, files, lookups,
                   api_open>>

\* list(self.get_huami_activity_samples(conn))
ReadHuami ==
    /\ pc = "read_huami"
    /\ \E t \in OptionalTables(MaxRows) :
          db' = [readable |-> TRUE, devices |-> db.devices, huami |-> t]
    /\ LET r == ReadTable(db'.huami, "HUAMI_EXTENDED_ACTIVITY_SAMPLE",
                          [samples |-> samples, log |-> log])
       IN samples' = r.samples /\ log' = r.log
    /\ pc' = "read_xiaomi"
    /\ UNCHANGED <<synthVars, all_revisions, db_paths, files, unit, taken,
                   device_cache, points, written, lookups, unit_lookups,
                   api_open, error>>

\* ... + list(self.get_xiaomi_activity_samples(conn))
ReadXiaomi ==
    /\ pc = "read_xiaomi"
    /\ \E t \in OptionalTables(MaxRows - TableLen(db.huami)) :
          db' = [readable |-> TRUE, devices |-> db.devices, huami |-> db.huami,
                 xiaomi |-> t]
    /\ LET r == ReadTable(db'.xiaomi, "XIAOMI_ACTIVITY_SAMPLE",
                          [samples |-> samples, log |-> log])
       IN samples' = r.samples /\ log' = r.log
    /\ pc' = "process"
    /\ UNCHANGED <<synthVars, all_revisions, db_paths, files, unit, taken,
                   device_cache, points, written, lookups, unit_lookups,
                   api_open, error>>

\* loop body for a sample without device id: logged and skipped
SkipSample ==
    /\ pc = "process"
    /\ taken < Len(samples)
    /\ ~HasDeviceId(samples[taken + 1])
    /\ taken' = taken + 1
    /\ sample' = samples[taken + 1]
    /\ tags' = NoTags
    /\ result' = <<>>
    /\ log' = Append(log, "Sample has no device ID")
    /\ UNCHANGED <<pc, schema, source, all_revisions, db_paths, files, unit, db,
                   samples, device_cache, points, written, lookups,
                   unit_lookups, api_open, error>>

\* loop body for a sample with a device id: resolve the device (through the
\* cache), build the tags, synthesize and extend the batch
ProcessSample ==
    /\ pc = "process"
    /\ taken < Len(samples)
    /\ HasDeviceId(samples[taken + 1])
    /\ LET s == samples[taken + 1]
           id == Val(s.device_id)
           miss == NeedsLookup(device_cache, id)
           got == GetDeviceInfo(db.devices, id)
       IN /\ miss => ~got.raised
          /\ device_cache' =
                IF miss
                THEN [i \in DOMAIN device_cache \cup {id} |->
                         IF i = id THEN got.info ELSE device_cache[i]]
                ELSE device_cache
          /\ lookups' = IF miss THEN [lookups EXCEPT ![id] = @ + 1] ELSE lookups
          /\ unit_lookups' =
                IF miss THEN [unit_lookups EXCEPT ![id] = @ + 1] ELSE unit_lookups
          /\ sample' = s
          /\ tags' = CommonTags(s, device_cache'[id])
          /\ result' = ActivityPoints(s, tags')
          /\ points' = Extend(points, result')
    /\ taken' = taken + 1
    /\ UNCHANGED <<pc, schema, source, all_revisions, db_paths, files, unit, db,
                   samples, written, log, api_open, error>>

\* loop body whose get_device_info raises (DeviceInfo rejects a NULL name or
\* manufacturer): the exception leaves the loop
ProcessSampleRaises ==
    /\ pc = "process"
    /\ taken < Len(samples)
    /\ HasDeviceId(samples[taken + 1])
    /\ LET s == samples[taken + 1]
           id == Val(s.device_id)
       IN /\ NeedsLookup(device_cache, id)
          /\ GetDeviceInfo(db.devices, id).raised
          /\ lookups' = [lookups EXCEPT ![id] = @ + 1]
          /\ unit_lookups' = [unit_lookups EXCEPT ![id] = @ + 1]
          /\ sample' = s
    /\ tags' = NoTags
    /\ result' = <<>>
    /\ taken' = taken + 1
    /\ error' = "device_info"
    /\ pc' = "cleanup"
    /\ UNCHANGED <<schema, source, all_revisions, db_paths, files, unit, db,
                   samples, device_cache, points, written, log, api_open>>

\* self._write_api.write(bucket, record=points) returns
WriteOk ==
    /\ pc = "process"
    /\ taken = Len(samples)
    /\ written' = Some(points)
    /\ log' = Append(log, "Metrics export complete")
    /\ pc' = "cleanup"
    /\ UNCHANGED <<synthVars, all_revisions, db_paths, files, unit, db, samples,
                   taken, device_cache, points, lookups, unit_lookups, api_open,
                   error>>

\* self._write_api.write raises
WriteFails ==
    /\ pc = "process"
    /\ taken = Len(samples)
    /\ written' = Some(points)
    /\ error' = "write"
    /\ pc' = "cleanup"
    /\ UNCHANGED <<synthVars, all_revisions, db_paths, files, unit, db, samples,
                   taken, device_cache, points, log, lookups, unit_lookups,
                   api_open>>

\* the file left on disk by the finally block
Unlink_Missing(fs, path) == fs

\* db_path.unlink()
Unlink(fs, path) == fs \ {path}

\* the exception caught, logged and not raised again
AfterFinally_Swallowed(err) == "loop"

\* "except Exception: log; raise": a pending exception leaves export_metrics
\* once the finally block is done, otherwise the loop takes the next unit
AfterFinally(err) == IF err = "none" THEN "loop" ELSE "raised"

\* the finally block: close the write API and the client, delete the file;
\* then the pending exception is re-raised or the loop goes on
Cleanup ==
    /\ pc = "cleanup"
    /\ api_open' = FALSE
    /\ files' = Unlink(files, db_paths[unit])
    /\ pc' = AfterFinally(error)
    /\ UNCHANGED <<synthVars, all_revisions, db_paths, unit, db, samples, taken,
                   device_cache, points, written, log, lookups, unit_lookups,
                   error>>

\* the loop over db_paths is exhausted: export_metrics returns
Finish ==
    /\ pc = "loop"
    /\ unit = Len(db_paths)
    /\ pc' = "done"
    /\ UNCHANGED <<synthVars, runVars>>

\* the daemon loop calls export_metrics again on the same exporter object:
\* the locals of the call before are gone, the exporter's write API and
\* client are the ones built by __init__, closed or not
NextRun ==
    /\ pc = "done"
    /\ pc' = "start"
    /\ db_paths' = <<>>
    /\ unit' = 0
    /\ db' = NoDb
    /\ samples' = <<>>
    /\ taken' = 0
    /\ device_cache' = [i \in {} |-> UnknownDeviceInfo]
    /\ points' = <<>>
    /\ written' = None
    /\ log' = <<>>
    /\ lookups' = NoLookups
    /\ unit_lookups' = NoLookups
    /\ sample' = None
    /\ tags' = NoTags
    /\ result' = <<>>
    /\ UNCHANGED <<schema, source, all_revisions, files, api_open, error>>

Next ==
    \/ Download
    \/ DownloadFails
    \/ StartUnit
    \/ StartUnitUnreadable
    \/ ReadHuami
    \/ ReadXiaomi
    \/ SkipSample
    \/ ProcessSample
    \/ ProcessSampleRaises
    \/ WriteOk
    \/ WriteFails
    \/ Cleanup
    \/ Finish
    \/ NextRun

Spec == Init /\ [][Next]_vars

----------------------------------------------------------------------------
(* zepp.py: the CSV archive reader *)

\* a CSV value: text that parses, text that does not, or a column the row
\* dictionary has no key for (row[...] raises KeyError)
GoodText(n) == [type |-> "ok", v |-> n]

BadText == [type |-> "bad", v |-> 0]

MissingColumn == [type |-> "missing", v |-> 0]

\* the member files of an archive by what the name tests of the reader see:
\* not ending in ".csv", the four prefixes, and any other CSV file
MemberKinds ==
    {"not_csv", "ACTIVITY_MINUTE", "ACTIVITY_STAGE_", "ACTIVITY_",
     "HEARTRATE_AUTO_", "other_csv"}

\* the kinds whose rows the reader turns into samples
ParsedKinds == {"ACTIVITY_MINUTE", "ACTIVITY_", "HEARTRATE_AUTO_"}

\* the ActivitySample attribute a kind's value column (steps, calories,
\* heartRate) is stored in
ValueAttribute(kind) ==
    CASE kind = "ACTIVITY_MINUTE" -> "steps"
      [] kind = "ACTIVITY_" -> "calories"
      [] kind = "HEARTRATE_AUTO_" -> "heart_rate"

\* the daily file has no time column; the others parse "date time"
UsesTime(kind) == kind # "ACTIVITY_"

\* strptime / int() raise on this row (ValueError, KeyError or TypeError)
CsvRowRaises(kind, row) ==
    \/ row.date.type # "ok"
    \/ UsesTime(kind) /\ row.time.type # "ok"
    \/ row.value.type # "ok"

\* int(date_time.timestamp()): date.v is the day, time.v the minute of the day
CsvTimestamp(kind, row) ==
    row.date.v * 86400 + (IF UsesTime(kind) THEN row.time.v * 60 ELSE 0)

\* models.ActivitySample(TIMESTAMP=timestamp, <VALUE>=int(row[...]))
CsvSample(kind, row) ==
    [f \in DOMAIN Alias |->
        IF f = "timestamp" THEN CsvTimestamp(kind, row)
        ELSE IF f = ValueAttribute(kind) THEN Some(row.value.v)
        ELSE None]

\* the rows of one member file, from acc = [samples, raised]: the first row
\* that raises ends the loop, since nothing catches the exception
RECURSIVE ReadCsvRows(_, _, _)
ReadCsvRows(kind, rows, acc) ==
    IF rows = <<>> THEN acc
    ELSE IF CsvRowRaises(kind, Head(rows))
         THEN [acc EXCEPT !.raised = TRUE]
         ELSE ReadCsvRows(kind, Tail(rows),
                  [acc EXCEPT !.samples = Append(@, CsvSample(kind, Head(rows)))])

\* one iteration of "for member in tar.getmembers()"
ReadMember(member, acc) ==
    IF member.kind \in ParsedKinds
    THEN ReadCsvRows(member.kind, member.rows, acc)
    ELSE acc

\* rows of a member file: well-formed ones, and rows with a non-integer
\* value, an unparseable date, and a missing column
CsvRows ==
    { [date |-> GoodText(1), time |-> GoodText(5), value |-> GoodText(30)],
      [date |-> GoodText(1), time |-> GoodText(6), value |-> GoodText(72)],
      [date |-> GoodText(1), time |-> GoodText(7), value |-> BadText],
      [date |-> BadText, time |-> GoodText(8), value |-> GoodText(30)],
      [date |-> GoodText(2), time |-> GoodText(9), value |-> MissingColumn] }

\* member files with up to n rows; only the parsed kinds get rows drawn
Members(n) ==
    { [kind |-> k, rows |-> r] :
        k \in ParsedKinds, r \in UNION {[1..j -> CsvRows] : j \in 0..n} }
    \cup { [kind |-> k, rows |-> <<>>] : k \in MemberKinds \ ParsedKinds }

RECURSIVE ArchiveRows(_)
ArchiveRows(members) ==
    IF members = <<>> THEN 0
    ELSE Len(Head(members).rows) + ArchiveRows(Tail(members))

ZeppTags == [k \in {"source"} |-> "zepp"]

----------------------------------------------------------------------------
(* Specification SpecZepp: one run of zepp.MetricsExporter.export_metrics *)

\* "for db_path in db_paths": process_activity_archive opens the tar file.
\* The members of the archive are drawn as the reader gets to them.
ZStartUnit ==
    /\ pc = "loop"
    /\ unit < Len(db_paths)
    /\ unit' = unit + 1
    /\ db' = [readable |-> TRUE, members |-> <<>>]
    /\ points' = <<>>
    /\ samples' = <<>>
    /\ taken' = 0
    /\ written' = None
    /\ log' = <<>>
    /\ sample' = None
    /\ tags' = NoTags
    /\ result' = <<>>
    /\ pc' = "archive"
    /\ UNCHANGED <<schema, source, all_revisions, db_paths, files, device_cache,
                   lookups, unit_lookups, api_open, error>>

\* tarfile.open raises: the file is no gzipped tar archive
ZStartUnitUnreadable ==
    /\ pc = "loop"
    /\ unit < Len(db_paths)
    /\ unit' = unit + 1
    /\ db' = UnreadableDb
    /\ samples' = <<>>
    /\ taken' = 0
    /\ written' = None
    /\ log' = <<>>
    /\ sample' = None
    /\ tags' = NoTags
    /\ result' = <<>>
    /\ error' = "unreadable"
    /\ pc' = "cleanup"
    /\ UNCHANGED <<schema, source, all_revisions, db_paths, files, device_cache,
                   points, lookups, unit_lookups, api_open>>

\* the next member file is read to its end
ZMember ==
    /\ pc = "archive"
    /\ Len(db.members) < MaxMembers
    /\ \E m \in Members(MaxRows - ArchiveRows(db.members)) :
          LET r == ReadMember(m, [samples |-> samples, raised |-> FALSE])
          IN /\ ~r.raised
             /\ samples' = r.samples
             /\ db' = [db EXCEPT !.members = Append(@, m)]
    /\ UNCHANGED <<pc, synthVars, all_revisions, db_paths, files, unit, taken,
                   device_cache, points, written, log, lookups, unit_lookups,
                   api_open, error>>

\* a row of the next member file raises: the exception leaves
\* process_activity_archive and the samples collected so far are lost
ZMemberRaises ==
    /\ pc = "archive"
    /\ Len(db.members) < MaxMembers
    /\ \E m \in Members(MaxRows - ArchiveRows(db.members)) :
          LET r == ReadMember(m, [samples |-> samples, raised |-> FALSE])
          IN /\ r.raised
             /\ db' = [db EXCEPT !.members = Append(@, m)]
    /\ samples' = <<>>
    /\ error' = "malformed_row"
    /\ pc' = "cleanup"
    /\ UNCHANGED <<synthVars, all_revisions, db_paths, files, unit, taken,
                   device_cache, points, written, log, lookups, unit_lookups,
                   api_open>>

\* the archive has no further member: process_activity_archive returns
ZArchiveRead ==
    /\ pc = "archive"
    /\ pc' = "process"
    /\ UNCHANGED <<synthVars, runVars>>

\* "for sample in samples: points.extend(sample.to_influxdb_points(...))"
ZProcessSample ==
    /\ pc = "process"
    /\ taken < Len(samples)
    /\ sample' = samples[taken + 1]
    /\ tags' = ZeppTags
    /\ result' = ActivityPoints(sample', tags')
    /\ points' = Extend(points, result')
    /\ taken' = taken + 1
    /\ UNCHANGED <<pc, schema, source, all_revisions, db_paths, files, unit, db,
                   samples, device_cache, written, log, lookups, unit_lookups,
                   api_open, error>>

ZNext ==
    \/ Download
    \/ DownloadFails
    \/ ZStartUnit
    \/ ZStartUnitUnreadable
    \/ ZMember
    \/ ZMemberRaises
    \/ ZArchiveRead
    \/ ZProcessSample
    \/ WriteOk
    \/ WriteFails
    \/ Cleanup
    \/ Finish
    \/ NextRun

SpecZepp == Init /\ [][ZNext]_vars

----------------------------------------------------------------------------
(* Properties of point synthesis, checked under SpecSynth *)

Returned == pc = "returned"

PointsNamed(ps, name) == SelectSeq(ps, LAMBDA p : p.measurement = name)

Indices(ps) == 1..Len(ps)

\* no measurement of the record is stored with a non-zero, non-sentinel value
NoMeaningfulMeasurement(sc, s) ==
    \A f \in Measurements(sc) :
        \/ ~Truthy(s[f])
        \/ f = "heart_rate" /\ s[f] = Some(255)

\* C1: every point returned by to_influxdb_points of the four models.py
\* schemas has at least one field, and a record with no meaningful
\* measurement returns no point at all.
C1_NoPointWithoutFields ==
    (Returned /\ schema # "WristbandActivitySample") =>
        /\ \A i \in Indices(result) : DOMAIN result[i].fields # {}
        /\ NoMeaningfulMeasurement(schema, sample) => result = <<>>

\* C2: a record whose heart rate is 0 or 255 yields no heart-rate point and
\* no point with a heart_rate field, whatever its other measurements are.
C2_SentinelHeartRateSuppressed ==
    (/\ Returned
     /\ schema \in {"ActivitySample", "WristbandActivitySample"}
     /\ sample.heart_rate \in {Some(0), Some(255)}) =>
        \A i \in Indices(result) :
            /\ result[i].measurement \notin {"heart_rate", "wristband_heart_rate"}
            /\ "heart_rate" \notin DOMAIN result[i].fields

C2_Witness ==
    /\ Returned
    /\ schema = "ActivitySample"
    /\ sample.heart_rate = Some(255)
    /\ sample.steps = Some(30)
    /\ Len(result) = 2

\* C3: a record with a present step count > 0 yields exactly one point named
\* steps, and its steps field is the record's step count.
C3_OneStepsPoint ==
    (/\ Returned
     /\ schema = "ActivitySample"
     /\ sample.steps # None
     /\ Val(sample.steps) > 0) =>
        LET sp == PointsNamed(result, "steps")
        IN /\ Len(sp) = 1
           /\ "steps" \in DOMAIN sp[1].fields
           /\ sp[1].fields["steps"] = sample.steps

C3_Witness ==
    /\ Returned
    /\ schema = "ActivitySample"
    /\ sample.steps = Some(30)
    /\ sample.heart_rate = Some(72)
    /\ Len(PointsNamed(result, "steps")) = 1

\* the record of the scenario: steps=0, heart_rate=72, nothing else stored
IsSteps0HeartRate72(s) ==
    /\ s.steps = Some(0)
    /\ s.heart_rate = Some(72)
    /\ \A f \in ActivityMeasurements \ {"steps", "heart_rate"} : s[f] = None

IsXiaomiFamily ==
    \/ schema \in XiaomiSchemas
    \/ schema = "ActivitySample" /\ source = "XIAOMI_ACTIVITY_SAMPLE"

\* C5: the time of every point of a Xiaomi-family record is
\* floor(timestamp / 1000) epoch seconds, with no sub-second remainder.
C5_TimeIsFloorOfMillis ==
    (Returned /\ IsXiaomiFamily) =>
        \A i \in Indices(result) :
            result[i].time = [sec |-> sample.timestamp \div 1000, ms |-> 0]

\* C10: a wristband record with sleep=30, deep_sleep absent and rem_sleep=20
\* yields exactly two wristband_sleep_state points, light with duration 30
\* and rem with duration 20, and none for deep.
C10_SleepFanOut ==
    (/\ Returned
     /\ schema = "WristbandActivitySample"
     /\ sample.sleep = Some(30)
     /\ sample.deep_sleep = None
     /\ sample.rem_sleep = Some(20)) =>
        LET sl == PointsNamed(result, "wristband_sleep_state")
            of(t) == SelectSeq(sl, LAMBDA p : p.tags["sleep_type"] = t)
        IN /\ Len(sl) = 2
           /\ Len(of("light")) = 1
           /\ of("light")[1].fields = [f \in {"duration"} |-> Some(30)]
           /\ Len(of("rem")) = 1
           /\ of("rem")[1].fields = [f \in {"duration"} |-> Some(20)]
           /\ Len(of("deep")) = 0

C10_Witness ==
    /\ Returned
    /\ schema = "WristbandActivitySample"
    /\ sample.sleep = Some(30)
    /\ sample.deep_sleep = None
    /\ sample.rem_sleep = Some(20)
    /\ Len(PointsNamed(result, "wristband_sleep_state")) = 2

IsTimeOf(t, sc, s) ==
    IF sc \in XiaomiSchemas
    THEN t.sec * 1000 + t.ms = s.timestamp /\ t.ms \in 0..999
    ELSE t.sec = s.timestamp /\ t.ms = 0

\* C18: every point returned for a record has the record's own timestamp as
\* its time and carries every tag the caller supplied, with the supplied
\* value; the points of the models.py classes have exactly the supplied tags.
C18_PointsCarryRecordTimeAndTags ==
    \A i \in Indices(result) :
        /\ IsTimeOf(result[i].time, schema, sample)
        /\ \A k \in DOMAIN tags :
              k \in DOMAIN result[i].tags /\ result[i].tags[k] = tags[k]
        /\ schema # "WristbandActivitySample" => result[i].tags = tags

C18_Witness ==
    /\ Returned
    /\ schema = "ActivitySample"
    /\ "user_id" \in DOMAIN tags
    /\ Len(result) = 3
    /\ \A i \in Indices(result) : result[i].time = [sec |-> 61999, ms |-> 0]

\* C19: a Xiaomi daily-summary, sleep-stage or sleep-time record returns
\* exactly one point, whose fields are exactly the measurements the record
\* has a value for (not None), a value of 0 included.
C19_XiaomiFieldForEveryPresentValue ==
    (Returned /\ schema \in XiaomiSchemas) =>
        /\ Len(result) = 1
        /\ DOMAIN result[1].fields = {f \in Measurements(schema) : sample[f] # None}
        /\ \A f \in DOMAIN result[1].fields : result[1].fields[f] = sample[f]

\* C20: an activity record without a heart rate (None) returns no point named
\* heart_rate and no point with a heart_rate field.
C20_AbsentHeartRateSuppressed ==
    (Returned /\ schema = "ActivitySample" /\ sample.heart_rate = None) =>
        \A i \in Indices(result) :
            /\ result[i].measurement # "heart_rate"
            /\ "heart_rate" \notin DOMAIN result[i].fields

\* the record attribute holding the duration of each sleep stage
StageAttribute == [light |-> "sleep", deep |-> "deep_sleep", rem |-> "rem_sleep"]

\* the points of ps tagged sleep_type = st
StagePoints(ps, st) ==
    SelectSeq(ps, LAMBDA p :
        "sleep_type" \in DOMAIN p.tags /\ p.tags["sleep_type"] = st)

\* C22: an ActivitySample (models.py) with a present sleep duration returns,
\* for every sleep stage whose value is present, exactly one point tagged
\* sleep_type with that value as its duration field, and none for a stage
\* whose value is absent.
C22_ActivitySampleSleepFanOut ==
    (Returned /\ schema = "ActivitySample" /\ sample.sleep # None) =>
        \A st \in DOMAIN StageAttribute :
            LET value == sample[StageAttribute[st]]
                pts == StagePoints(result, st)
            IN IF value # None
               THEN /\ Len(pts) = 1
                    /\ pts[1].fields = [f \in {"duration"} |-> value]
               ELSE Len(pts) = 0

\* the measurements of an activity record for which 0 means absent
ZeroAsAbsent ==
    {"steps", "stress", "spo2", "raw_intensity", "sleep", "deep_sleep",
     "rem_sleep", "raw_kind"}

\* C23: for an ActivitySample, replacing a stored 0 by None in any one of the
\* zero-as-absent measurements leaves the returned list of points unchanged.
C23_ZeroIsAbsent ==
    (Returned /\ schema = "ActivitySample") =>
        \A f \in ZeroAsAbsent :
            sample[f] = Some(0) =>
                ActivityPoints([sample EXCEPT ![f] = None], tags) = result

C23_Witness ==
    /\ Returned
    /\ schema = "ActivitySample"
    /\ sample.stress = Some(0)
    /\ sample.heart_rate = Some(72)
    /\ Len(result) = 2
    /\ DOMAIN result[2].fields = {"heart_rate"}

----------------------------------------------------------------------------
(* Properties of the gadgetbridge export run, checked under Spec *)

DeviceTagKeys ==
    {"device_name", "device_manufacturer", "device_model", "device_firmware"}

\* the loop body has just run for a sample that names a device
SampleProcessed ==
    pc = "process" /\ sample # None /\ Truthy(sample.device_id)

EndsWith(seq, tail) ==
    /\ Len(tail) <= Len(seq)
    /\ SubSeq(seq, Len(seq) - Len(tail) + 1, Len(seq)) = tail

\* C6: a device id with no row in the device table resolves to the four tags
\* device_name, device_manufacturer, device_model, device_firmware, all
\* "unknown", and the record that named it is processed without error.
C6_UnknownDeviceTags ==
    /\ (SampleProcessed /\ Val(sample.device_id) \notin DOMAIN db.devices) =>
          /\ ToTags(device_cache[Val(sample.device_id)])
                = [k \in DeviceTagKeys |-> "unknown"]
          /\ \A k \in DeviceTagKeys : k \in DOMAIN tags /\ tags[k] = "unknown"
          /\ error = "none"
          /\ result # <<>>
          /\ EndsWith(points, result)
    /\ error = "device_info" => Val(sample.device_id) \in DOMAIN db.devices

C6_Witness ==
    /\ SampleProcessed
    /\ Val(sample.device_id) = 2
    /\ 2 \notin DOMAIN db.devices
    /\ Len(points) >= 2

\* the device ids named by the samples the loop has taken in this unit
ReferencedIds ==
    { Val(samples[i].device_id) : i \in {j \in 1..taken : Truthy(samples[j].device_id)} }

References(id) ==
    Cardinality({j \in 1..taken : samples[j].device_id = Some(id)})

\* C7 as stated: get_device_info is invoked exactly once per device id during
\* the whole run, also when the run processes several revisions.
C7_Original_OneLookupPerRun ==
    \A id \in DeviceIds :
        /\ lookups[id] <= 1
        /\ id \in ReferencedIds => lookups[id] = 1

\* C7 amended: within each unit, get_device_info is invoked exactly once for
\* every device id the unit's processed records name (and not at all for the
\* others); the cache is local to the unit, so every revision looks it up anew.
C7_OneLookupPerUnit ==
    \A id \in DeviceIds :
        unit_lookups[id] = IF id \in ReferencedIds THEN 1 ELSE 0

C7_Witness ==
    /\ unit = 2
    /\ References(1) = 2
    /\ unit_lookups[1] = 1
    /\ lookups[1] = 2

\* a row the claim calls parseable: an integer timestamp and no column of a
\* mismatched type
Parseable(row) ==
    /\ row.TIMESTAMP.type \in {"int", "numtext"}
    /\ \A c \in ActivityColumns : row[c].type # "text"

\* the n-k parseable rows of a table, as records, in their original order
ExpectedSamples(table) ==
    IF table = None THEN <<>>
    ELSE LET ok == SelectSeq(Val(table), Parseable)
         IN [i \in 1..Len(ok) |-> ModelValidate(ok[i])]

Rejected(table) ==
    IF table = None THEN 0
    ELSE Len(Val(table)) - Len(SelectSeq(Val(table), Parseable))

SkipsLogged ==
    Len(SelectSeq(log, LAMBDA l : l = "Failed to parse activity sample"))

\* C8: the readers yield exactly the parseable rows of their table in the
\* original order, log one skip per rejected row and raise nothing.
C8_BadRowsSkipped ==
    /\ pc = "read_xiaomi" =>
          /\ samples = ExpectedSamples(db.huami)
          /\ SkipsLogged = Rejected(db.huami)
          /\ error = "none"
    /\ (pc = "process" /\ taken = 0) =>
          /\ samples = ExpectedSamples(db.huami) \o ExpectedSamples(db.xiaomi)
          /\ SkipsLogged = Rejected(db.huami) + Rejected(db.xiaomi)
          /\ error = "none"

C8_Witness ==
    /\ pc = "read_xiaomi"
    /\ TableLen(db.huami) = 2
    /\ Rejected(db.huami) = 1
    /\ ~Parseable(Val(db.huami)[1])
    /\ Len(samples) = 1
    /\ SkipsLogged = 1

\* the unit the loop entered last is over: the loop is about to take the next
\* file, has returned, or the unit's exception has left export_metrics
UnitOver == unit >= 1 /\ pc \in {"loop", "raised", "done"}

\* C12: when a unit is over, with or without an exception, its temporary file
\* (and that of every unit before it) is deleted and the write API and the
\* client are closed, before the next unit starts or the run ends.
C12_UnitResourcesReleased ==
    UnitOver =>
        /\ \A i \in 1..unit : db_paths[i] \notin files
        /\ ~api_open

C12_Witness ==
    /\ pc = "raised"
    /\ unit = 2
    /\ error = "write"
    /\ db_paths[2] \notin files
    /\ ~api_open

\* export_metrics has returned or an exception has left it
RunEnded == pc \in {"done", "raised"}

\* C13: when the run ends, by return or by an exception in any unit, every
\* temporary file the download returned has been deleted.
C13_AllDownloadedFilesDeleted ==
    RunEnded => \A i \in 1..Len(db_paths) : db_paths[i] \notin files

\* C14: a unit hands its batch to the sink at most once (after the write
\* attempt the unit neither reads, processes nor writes again); once a step of
\* a unit has failed, the only step left is that unit's cleanup, after which
\* the exception leaves export_metrics: no later unit is started or written.
C14_NoRetryErrorPropagates ==
    [][/\ written # None => pc \notin {"read_huami", "read_xiaomi", "process"}
       /\ error # "none" =>
             /\ pc = "cleanup"
             /\ pc' = "raised"
             /\ unit' = unit
             /\ written' = written
             /\ db_paths[unit] \notin files'
             /\ ~api_open']_vars

C14_Witness ==
    /\ pc = "raised"
    /\ error = "write"
    /\ unit = 1
    /\ Len(db_paths) = 2
    /\ written # None
    /\ Val(written) # <<>>

NotFoundLogged(name) ==
    \E i \in 1..Len(log) : log[i] = name \o " table not found"

\* C15: a reader whose table does not exist logs that, yields no record and
\* raises nothing; the unit goes on with the records of the other table and,
\* when nothing else fails, hands its batch to the sink once.
C15_MissingTableIsNoError ==
    /\ (pc = "read_xiaomi" /\ db.huami = None) =>
          /\ samples = <<>>
          /\ NotFoundLogged("HUAMI_EXTENDED_ACTIVITY_SAMPLE")
          /\ error = "none"
    /\ (pc = "process" /\ taken = 0 /\ db.huami = None) =>
          /\ samples = ExpectedSamples(db.xiaomi)
          /\ error = "none"
    /\ (pc = "process" /\ taken = 0 /\ db.xiaomi = None) =>
          /\ samples = ExpectedSamples(db.huami)
          /\ NotFoundLogged("XIAOMI_ACTIVITY_SAMPLE")
          /\ error = "none"
    /\ (/\ pc = "cleanup"
        /\ error = "none"
        /\ db.readable
        /\ (db.huami = None \/ db.xiaomi = None)) =>
          /\ taken = Len(samples)
          /\ written = Some(points)

C15_Witness ==
    /\ pc = "cleanup"
    /\ error = "none"
    /\ db.readable
    /\ db.xiaomi = None
    /\ db.huami # None
    /\ Len(samples) = 2
    /\ written # None
    /\ Val(written) # <<>>

\* the column of the device row each device tag is taken from
TagColumn ==
    [device_name |-> "name", device_manufacturer |-> "manufacturer",
     device_model |-> "model", device_firmware |-> "firmware"]

\* C16: a record whose device id has a row in the device table is processed
\* (the lookup does not raise), the resolved device tags are exactly the four
\* keys, and each one whose column is NULL, name and manufacturer included,
\* is "unknown".
C16_AbsentDeviceValuesAreUnknown ==
    /\ error # "device_info"
    /\ (SampleProcessed /\ Val(sample.device_id) \in DOMAIN db.devices) =>
          LET row == db.devices[Val(sample.device_id)]
              dev == ToTags(device_cache[Val(sample.device_id)])
          IN /\ DOMAIN dev = DeviceTagKeys
             /\ \A k \in DeviceTagKeys :
                    /\ tags[k] = dev[k]
                    /\ row[TagColumn[k]] = None => dev[k] = "unknown"

\* the points of the records recs, record after record in the order of recs,
\* each record's points in the order synthesis returned them; records without
\* a device id have none
RECURSIVE ExpectedBatch(_, _)
ExpectedBatch(recs, cache) ==
    IF recs = <<>> THEN <<>>
    ELSE LET r == Head(recs)
             own == IF Truthy(r.device_id)
                    THEN ActivityPoints(r, CommonTags(r, cache[Val(r.device_id)]))
                    ELSE <<>>
         IN own \o ExpectedBatch(Tail(recs), cache)

\* C17: the records are taken in the order they were read (each table in
\* cursor order), and the batch, while it is built and when it is handed to the
\* sink, holds the points of the records taken so far in that order, none
\* dropped, duplicated or moved.
C17_BatchInReadOrder ==
    /\ pc = "process" =>
          /\ samples = ExpectedSamples(db.huami) \o ExpectedSamples(db.xiaomi)
          /\ points = ExpectedBatch(SubSeq(samples, 1, taken), device_cache)
    /\ (written # None /\ db.readable) =>
          Val(written) = ExpectedBatch(samples, device_cache)

C17_Witness ==
    /\ written # None
    /\ db.readable
    /\ TableLen(db.huami) = 2
    /\ Len(samples) = 2
    /\ samples[1].timestamp < samples[2].timestamp
    /\ Len(Val(written)) = 5
    /\ Val(written)[3].time = ActivityDatetime(samples[1])
    /\ Val(written)[4].time = ActivityDatetime(samples[2])

\* C21: every unit starts with an empty device cache and an empty batch;
\* every cached Device Info is the one resolved from the database of the
\* current unit, and the batch handed to the sink holds the points of the
\* current unit's records only, tagged from that cache.
C21_CacheAndBatchPerUnit ==
    /\ pc \in {"read_huami", "read_xiaomi"} =>
          /\ DOMAIN device_cache = {}
          /\ points = <<>>
    /\ db.readable =>
          \A id \in DOMAIN device_cache :
              device_cache[id] = GetDeviceInfo(db.devices, id).info
    /\ (written # None /\ db.readable) =>
          /\ Val(written) = points
          /\ points = ExpectedBatch(samples, device_cache)

C21_Witness ==
    /\ unit = 2
    /\ pc = "cleanup"
    /\ written # None
    /\ Len(Val(written)) = 3
    /\ lookups[1] = 2
    /\ 1 \in DOMAIN device_cache
    /\ device_cache[1].firmware = None

\* C24: whenever a unit hands its batch to the sink, the write API and the
\* client are open: no write is attempted after a cleanup has closed them,
\* neither in a later unit of the run nor in a later run of the exporter.
C24_WriteOnOpenApi ==
    [][(written = None /\ written' # None) => api_open]_vars

\* the tag keys of a point of the gadgetbridge run
RunTagKeys == DeviceTagKeys \cup {"user_id", "source"}

WithDeviceId(recs) == SelectSeq(recs, LAMBDA r : Truthy(r.device_id))

\* C25: the loop body for a sample whose device id is None or 0 adds no point,
\* makes no device lookup and no cache entry, raises nothing and goes on to
\* the next sample; the batch handed to the sink has points for every sample
\* with a device id, and each of its points carries the four device tags,
\* user_id and source.
C25_SampleWithoutDeviceSkipped ==
    [][/\ (/\ pc = "process"
           /\ taken < Len(samples)
           /\ ~Truthy(samples[taken + 1].device_id)) =>
             /\ points' = points
             /\ device_cache' = device_cache
             /\ lookups' = lookups
             /\ unit_lookups' = unit_lookups
             /\ taken' = taken + 1
             /\ pc' = "process"
             /\ error' = error
       /\ (written = None /\ written' # None) =>
             /\ Len(Val(written')) >= Len(WithDeviceId(samples))
             /\ \A i \in Indices(Val(written')) :
                    DOMAIN Val(written')[i].tags = RunTagKeys]_vars

C25_Witness ==
    /\ pc = "cleanup"
    /\ error = "none"
    /\ Len(samples) = 2
    /\ samples[1].device_id = Some(0)
    /\ samples[2].device_id = Some(1)
    /\ written # None
    /\ Len(Val(written)) = 3
    /\ DOMAIN device_cache = {1}
    /\ unit_lookups = [i \in DeviceIds |-> IF i = 1 THEN 1 ELSE 0]

----------------------------------------------------------------------------
(* Properties of the zepp export run, checked under SpecZepp *)

RECURSIVE WellFormedRows(_)
WellFormedRows(members) ==
    IF members = <<>> THEN 0
    ELSE (IF Head(members).kind \in ParsedKinds
          THEN Len(SelectSeq(Head(members).rows,
                             LAMBDA r : ~CsvRowRaises(Head(members).kind, r)))
          ELSE 0)
         + WellFormedRows(Tail(members))

\* C9: a malformed CSV row is skipped and never fails the unit: every
\* well-formed row of the files read so far has produced its sample.
C9_MalformedRowSkipped ==
    /\ error # "malformed_row"
    /\ pc \in {"archive", "process"} => Len(samples) = WellFormedRows(db.members)

\* the batch has a point derived from record r that has measurement f of r as
\* a field
ReachesSink(batch, r, f) ==
    \E i \in Indices(batch) :
        /\ batch[i].time = ActivityDatetime(r)
        /\ f \in DOMAIN batch[i].fields
        /\ batch[i].fields[f] = r[f]

\* C26: every measurement the archive reader stored in a record is in the
\* batch handed to the sink: for each record of a daily-activity row with
\* calories > 0 (as for steps and heart rate of the other files) the batch has
\* a point of that record with that value as a field.
C26_StoredMeasurementsReachSink ==
    (written # None /\ db.readable) =>
        \A i \in Indices(samples) :
            \A f \in {"steps", "heart_rate", "calories"} :
                (samples[i][f] # None /\ Val(samples[i][f]) > 0) =>
                    ReachesSink(Val(written), samples[i], f)

====
